---- MODULE Spec2Model ----
(***************************************************************************)
(* Model of dashboard/test-server.py: TestDashboardHandler.do_GET on top   *)
(* of http.server.SimpleHTTPRequestHandler, and the __main__ block that    *)
(* runs socketserver.TCPServer.serve_forever until KeyboardInterrupt.      *)
(*                                                                         *)
(* Conventions.  A request path is the raw request target, kept as the     *)
(* sequence of its lexemes ("/", names, "?", query text), so that string   *)
(* equality of paths is equality of sequences and translate_path can work  *)
(* on it.  A body is a sequence of lexeme records; file contents use the   *)
(* same alphabet, so "the body is the bytes of the file" is equality.      *)
(* Requests are HTTP/1.x request lines (status line and headers are sent). *)
(* The inherited static file serving (send_head) is one step with respect  *)
(* to the filesystem.                                                      *)
(***************************************************************************)
EXTENDS Integers, Sequences, FiniteSets, TLC

VARIABLES
    fs,             \* the files the program can see
    main,           \* position of the main thread in the __main__ block
    is_shut_down,   \* BaseServer.__is_shut_down (threading.Event)
    shutdown_request, \* BaseServer.__shutdown_request
    out,            \* lines printed on standard output
    intr,           \* where the KeyboardInterrupt was raised ("none" if not yet)
    hpc,            \* position of the request handler
    req,            \* the request being handled: command and raw path
    self_path,      \* self.path of the handler
    resp,           \* what has been sent on the connection so far
    seen,           \* what exists() and open() observed for the results file
    log,            \* filesystem accesses made while handling the request
    fsAt,           \* the filesystem as static file serving saw it
    sample          \* an earlier GET kept for comparison: path, files, response

vars == <<fs, main, is_shut_down, shutdown_request, out, intr,
          hpc, req, self_path, resp, seen, log, fsAt, sample>>

srvVars == <<main, is_shut_down, shutdown_request, out, intr>>
hdlVars == <<hpc, req, self_path, resp, seen, log, fsAt>>

PORT == 8080

\* Number of distinct contents the results file is drawn from.
NumContents == 2

-----------------------------------------------------------------------------
(* JSON values and their serialisation *)

JStr(s) == [t |-> "str", s |-> s]
JNum(n) == [t |-> "num", n |-> n]
JFloat(w, f) == [t |-> "float", w |-> w, f |-> f]
JBool(b) == [t |-> "bool", b |-> b]
JObj(items) == [t |-> "obj", items |-> items]
Item(k, v) == [k |-> k, v |-> v]

Punct(s) == [t |-> "p", s |-> s]
Newline(n) == [t |-> "nl", n |-> n]

\* A slip in the demo figures: one test counted as passed is missing.
mock_counts_off == [total_tests |-> 437, passed |-> 436, failed |-> 0, ignored |-> 0]

\* the four counters of mock_data
mock_counts == [total_tests |-> 437, passed |-> 437, failed |-> 0, ignored |-> 0]

mock_data ==
    JObj(<< Item("timestamp", JStr("2025-01-21T12:00:00Z")),
            Item("status", JStr("success")),
            Item("total_tests", JNum(mock_counts.total_tests)),
            Item("passed", JNum(mock_counts.passed)),
            Item("failed", JNum(mock_counts.failed)),
            Item("ignored", JNum(mock_counts.ignored)),
            Item("pass_rate", JFloat(100, 0)),
            Item("test_suites", JObj(<<
                Item("library", JObj(<<
                    Item("name", JStr("Library Unit Tests")),
                    Item("count", JNum(396)) >>)),
                Item("infrastructure", JObj(<<
                    Item("name", JStr("Infrastructure Integration Tests")),
                    Item("count", JNum(19)) >>)),
                Item("jetstream", JObj(<<
                    Item("name", JStr("JetStream Event Store Tests")),
                    Item("count", JNum(6)) >>)),
                Item("persistence", JObj(<<
                    Item("name", JStr("Persistence Integration Tests")),
                    Item("count", JNum(7)) >>)) >>)),
            Item("environment", JObj(<<
                Item("rust_version", JStr("1.75.0")),
                Item("nats_required", JBool(TRUE)),
                Item("nats_endpoint", JStr("localhost:4222")) >>)) >>)

\* json.dumps(v, indent=indent): the lexemes of the pretty-printed text.
\* An object is "{", then for each item a newline indented one level deeper,
\* the key, ":", the value, and "," between items, then a newline at the
\* object's own level and "}".
RECURSIVE json_dumps(_, _, _)
RECURSIVE DumpItems(_, _, _, _)
DumpItems(items, i, indent, level) ==
    IF i > Len(items) THEN << >>
    ELSE <<Newline(indent * (level + 1)), JStr(items[i].k), Punct(":")>>
         \o json_dumps(items[i].v, indent, level + 1)
         \o (IF i < Len(items) THEN <<Punct(",")>> ELSE << >>)
         \o DumpItems(items, i + 1, indent, level)

json_dumps(v, indent, level) ==
    IF v.t = "obj"
    THEN IF Len(v.items) = 0 THEN <<Punct("{"), Punct("}")>>
         ELSE <<Punct("{")>> \o DumpItems(v.items, 1, indent, level)
              \o <<Newline(indent * level), Punct("}")>>
    ELSE <<v>>

\* The body of the mock branch: json.dumps(mock_data, indent=2).encode().
\* The text is ASCII, so encode() maps each lexeme to its own bytes.
MockBody == json_dumps(mock_data, 2, 0)

-----------------------------------------------------------------------------
(* Request paths *)

P_ROOT == <<"/">>
P_INDEX == <<"/", "index.html">>
P_SUMMARY == <<"/", "test-results", "/", "summary.json">>
P_SUMMARY_QUERY == P_SUMMARY \o <<"?", "x=1">>
P_SUMMARY_FRAG == P_SUMMARY \o <<"#", "top">>
P_SUMMARY_SLASH == P_SUMMARY \o <<"/">>
P_SUMMARY_CASE == <<"/", "Test-Results", "/", "Summary.json">>
P_SUMMARY_DOTS == <<"/", "..", "/", "test-results", "/", "summary.json">>
P_ROOT_QUERY == <<"/", "?", "x=1">>
P_RESULTS_DIR == <<"/", "test-results">>
P_MISSING == <<"/", "missing.txt">>

Paths == { P_ROOT, P_INDEX, P_SUMMARY, P_SUMMARY_QUERY, P_SUMMARY_FRAG,
           P_SUMMARY_SLASH, P_SUMMARY_CASE, P_SUMMARY_DOTS, P_ROOT_QUERY,
           P_RESULTS_DIR, P_MISSING }

Commands == {"GET", "HEAD", "POST", "DELETE"}

-----------------------------------------------------------------------------
(* The filesystem *)

Absent == [kind |-> "absent", data |-> << >>]
Dir == [kind |-> "dir", data |-> << >>]
File(d) == [kind |-> "file", data |-> d]

\* Contents of the results file: small JSON documents and the empty file.
ResultsContents ==
    { << >> } \cup
    { <<Punct("{"), JStr("total_tests"), Punct(":"), JNum(i), Punct("}")>> :
        i \in 1..NumContents }

IndexContent == << [t |-> "raw", s |-> "html-dashboard"] >>
LocalContent == <<Punct("{"), JStr("local"), Punct(":"), JBool(TRUE), Punct("}")>>

\* results: <parent of script dir>/test-results/summary.json
\* index:   <script dir>/index.html
\* local:   <script dir>/test-results/summary.json
FsStates ==
    [ results : {Absent, Dir} \cup { File(d) : d \in ResultsContents },
      index   : {Absent, File(IndexContent)},
      local   : {Absent, File(LocalContent)} ]

\* The entry of the script's directory named by a list of path words.
Lookup(f, words) ==
    IF words = << >> THEN Dir
    ELSE IF words = <<"index.html">> THEN f.index
    ELSE IF words = <<"test-results">>
         THEN (IF f.local.kind = "absent" THEN Absent ELSE Dir)
    ELSE IF words = <<"test-results", "summary.json">> THEN f.local
    ELSE Absent

\* Names in a directory of the script's directory, for list_directory.
Listing(f, words) ==
    IF words = << >>
    THEN (IF f.index.kind = "absent" THEN << >> ELSE <<"index.html">>)
         \o (IF f.local.kind = "absent" THEN << >> ELSE <<"test-results/">>)
    ELSE IF words = <<"test-results">> /\ f.local.kind # "absent"
         THEN <<"summary.json">>
    ELSE << >>

-----------------------------------------------------------------------------
(* http.server: responses *)

NoResponse == [status |-> 0, headers |-> << >>, ended |-> FALSE, body |-> << >>]

send_response(r, code) ==
    [r EXCEPT !.status = code,
              !.headers = @ \o << <<"Server", "SimpleHTTP">>, <<"Date", "now">> >>]

send_header(r, keyword, value) ==
    [r EXCEPT !.headers = Append(@, <<keyword, value>>)]

end_headers(r) == [r EXCEPT !.ended = TRUE]

wfile_write(r, data) == [r EXCEPT !.body = @ \o data]

HasHeader(r, keyword, value) ==
    \E i \in 1..Len(r.headers) : r.headers[i] = <<keyword, value>>

ErrorPage(code) == <<[t |-> "err", n |-> code]>>

\* BaseHTTPRequestHandler.send_error: the error page is left out for HEAD.
send_error(r, code, command) ==
    LET r1 == send_header(send_response(r, code), "Connection", "close")
        r2 == send_header(r1, "Content-Type", "text/html;charset=utf-8")
        r3 == send_header(r2, "Content-Length", ToString(Len(ErrorPage(code))))
        r4 == end_headers(r3)
    IN  IF command # "HEAD" THEN wfile_write(r4, ErrorPage(code)) ELSE r4

-----------------------------------------------------------------------------
(* http.server: SimpleHTTPRequestHandler *)

\* path.split(mark, 1)[0]
RECURSIVE SplitFirst(_, _)
SplitFirst(path, mark) ==
    IF path = << >> \/ Head(path) = mark THEN << >>
    ELSE <<Head(path)>> \o SplitFirst(Tail(path), mark)

\* urlsplit(path).path: the target without query and fragment
UrlPath(path) == SplitFirst(SplitFirst(path, "?"), "#")

EndsWithSlash(path) == path # << >> /\ path[Len(path)] = "/"

\* posixpath.normpath followed by split('/') and filter(None, ...):
\* "." is dropped, ".." removes the word before it and is dropped at the root.
RECURSIVE NormWords(_, _)
NormWords(path, acc) ==
    IF path = << >> THEN acc
    ELSE LET w == Head(path) IN
         IF w = "/" \/ w = "." THEN NormWords(Tail(path), acc)
         ELSE IF w = ".."
              THEN NormWords(Tail(path),
                             IF acc = << >> THEN acc ELSE SubSeq(acc, 1, Len(acc) - 1))
              ELSE NormWords(Tail(path), Append(acc, w))

\* The file under the script's directory (the working directory after
\* os.chdir) that a request path names, and whether a trailing slash is kept.
translate_path(path) ==
    [words |-> NormWords(UrlPath(path), << >>),
     trailing |-> EndsWithSlash(UrlPath(path))]

\* mimetypes by extension of the last word
guess_type(words) ==
    IF words = << >> THEN "application/octet-stream"
    ELSE LET name == words[Len(words)] IN
         IF name = "index.html" THEN "text/html"
         ELSE IF name \in {"summary.json", "Summary.json"} THEN "application/json"
         ELSE IF name = "missing.txt" THEN "text/plain"
         ELSE "application/octet-stream"

\* list_directory: headers of the generated listing; the listing is the file
\* object handed back to the caller.
list_directory(r, f, words) ==
    LET page == <<[t |-> "listing", names |-> Listing(f, words)]>>
        r1 == send_header(send_response(r, 200), "Content-type", "text/html; charset=utf-8")
        r2 == send_header(r1, "Content-Length", ToString(Len(page)))
    IN  [resp |-> end_headers(r2), file |-> page, opened |-> TRUE]

\* send_head: status line and headers; "file" is the open file the caller
\* copies (opened = FALSE stands for the return value None).
send_head(r, path, f, command) ==
    LET tp == translate_path(path)
        ent == Lookup(f, tp.words)
        none(rr) == [resp |-> rr, file |-> << >>, opened |-> FALSE]
        serve(words, trailing) ==
            LET e == Lookup(f, words) IN
            IF trailing \/ e.kind # "file"
            THEN none(send_error(r, 404, command))
            ELSE LET r1 == send_header(send_response(r, 200), "Content-type", guess_type(words))
                     r2 == send_header(r1, "Content-Length", ToString(Len(e.data)))
                     r3 == send_header(r2, "Last-Modified", "mtime")
                 IN  [resp |-> end_headers(r3), file |-> e.data, opened |-> TRUE]
    IN  IF ent.kind = "dir"
        THEN IF ~EndsWithSlash(UrlPath(path))
             THEN LET r1 == send_header(send_response(r, 301), "Location", "slash-added")
                      r2 == send_header(r1, "Content-Length", "0")
                  IN  none(end_headers(r2))
             ELSE IF Lookup(f, Append(tp.words, "index.html")).kind = "file"
                  THEN serve(Append(tp.words, "index.html"), FALSE)
                  ELSE list_directory(r, f, tp.words)
        ELSE serve(tp.words, tp.trailing)

\* SimpleHTTPRequestHandler.do_GET: send_head, then copy the file to wfile.
super_do_GET(r, path, f) ==
    LET h == send_head(r, path, f, "GET") IN
    IF h.opened THEN wfile_write(h.resp, h.file) ELSE h.resp

\* SimpleHTTPRequestHandler.do_HEAD: send_head, then close the file.
super_do_HEAD(r, path, f) == send_head(r, path, f, "HEAD").resp

-----------------------------------------------------------------------------
(* TestDashboardHandler *)

NoRequest == [command |-> "", path |-> << >>]
NoFs == [results |-> Absent, index |-> Absent, local |-> Absent]
NoSeen == [check |-> "none", open |-> "none"]
NoSample == [path |-> << >>, fs |-> NoFs, resp |-> NoResponse]

\* Every command is given a handler (a catch-all __getattr__).
HasMethod_any(command) == TRUE

\* handle_one_request: getattr(self, 'do_' + command).  The class defines
\* do_GET and inherits do_HEAD from SimpleHTTPRequestHandler.
HasMethod(command) == command \in {"GET", "HEAD"}

\* The rewritten path is kept on the class: once a request has been turned
\* into /index.html, later requests are handled with that path.
parse_request_sticky(old_path, path) == IF old_path = P_INDEX THEN old_path ELSE path

\* parse_request: the handler object is made for the connection and takes
\* its path from the request line.
parse_request(old_path, path) == path

\* startswith('/') instead of ==
IsRoot_prefix(path) == path # << >> /\ Head(path) = "/"

\* if self.path == '/'
IsRoot(path) == path = P_ROOT

\* '/index.htm' instead of '/index.html'
RewriteTarget_htm == <<"/", "index.htm">>

\* self.path = '/index.html'
RewriteTarget == P_INDEX

\* The comparison made on the target without its query and fragment.
IsSummary_urlpath(path) == UrlPath(path) = P_SUMMARY

\* elif self.path == '/test-results/summary.json'
IsSummary(path) == path = P_SUMMARY

\* The existence check made on the test-results directory, taken to be there.
test_results_exists_parent(f) == TRUE

\* test_results_path.exists(): true of a file and of a directory
test_results_exists(f) == f.results.kind # "absent"

\* send_response(200) and the two headers of the branch that serves the file
FileHeaders(r) ==
    end_headers(send_header(send_header(send_response(r, 200),
        "Content-type", "application/json"),
        "Access-Control-Allow-Origin", "*"))

\* send_response(200) and the two headers of the mock branch
MockHeaders(r) ==
    end_headers(send_header(send_header(send_response(r, 200),
        "Content-type", "application/json"),
        "Access-Control-Allow-Origin", "*"))

\* open(test_results_path, 'rb') succeeds on a regular file only
CanOpen(e) == e.kind = "file"

\* f.readline() instead of f.read()
ReadLine(e) == IF e.data = << >> THEN << >> ELSE <<Head(e.data)>>

\* f.read()
ReadAll(e) == e.data

\* A connection is accepted and its request line parsed.
Accept(c, p) ==
    /\ main = "serving"
    /\ hpc = "idle"
    /\ req' = [command |-> c, path |-> p]
    /\ self_path' = parse_request(self_path, p)
    /\ resp' = NoResponse
    /\ seen' = NoSeen
    /\ log' = {}
    /\ fsAt' = NoFs
    /\ hpc' = "dispatch"
    /\ UNCHANGED <<fs, srvVars, sample>>

\* No do_<command> attribute: 501 Unsupported method.
Unsupported ==
    /\ main = "serving"
    /\ hpc = "dispatch"
    /\ ~HasMethod(req.command)
    /\ resp' = send_error(resp, 501, req.command)
    /\ hpc' = "finished"
    /\ UNCHANGED <<fs, srvVars, sample, req, self_path, seen, log, fsAt>>

\* The inherited do_HEAD, on the raw path.
do_HEAD ==
    /\ main = "serving"
    /\ hpc = "dispatch"
    /\ HasMethod(req.command)
    /\ req.command # "GET"
    /\ resp' = super_do_HEAD(resp, self_path, fs)
    /\ log' = log \cup {"static"}
    /\ fsAt' = fs
    /\ hpc' = "finished"
    /\ UNCHANGED <<fs, srvVars, sample, req, self_path, seen>>

\* do_GET, first branch: rewrite the path, then super().do_GET().
do_GET_root ==
    /\ main = "serving"
    /\ hpc = "dispatch"
    /\ HasMethod(req.command)
    /\ req.command = "GET"
    /\ IsRoot(self_path)
    /\ self_path' = RewriteTarget
    /\ resp' = super_do_GET(resp, RewriteTarget, fs)
    /\ log' = log \cup {"static"}
    /\ fsAt' = fs
    /\ hpc' = "finished"
    /\ UNCHANGED <<fs, srvVars, sample, req, seen>>

\* do_GET, second branch: exists() and the status line and headers of the
\* branch it selects.
do_GET_summary ==
    /\ main = "serving"
    /\ hpc = "dispatch"
    /\ HasMethod(req.command)
    /\ req.command = "GET"
    /\ ~IsRoot(self_path)
    /\ IsSummary(self_path)
    /\ seen' = [seen EXCEPT !.check = fs.results.kind]
    /\ log' = log \cup {"exists_results"}
    /\ IF test_results_exists(fs)
       THEN resp' = FileHeaders(resp) /\ hpc' = "open"
       ELSE resp' = MockHeaders(resp) /\ hpc' = "mock"
    /\ UNCHANGED <<fs, srvVars, sample, req, self_path, fsAt>>

\* with open(test_results_path, 'rb') as f: self.wfile.write(f.read()).
\* open raises FileNotFoundError or IsADirectoryError when there is no
\* regular file; the server's handle_error then drops the connection.
do_GET_summary_file ==
    /\ main = "serving"
    /\ hpc = "open"
    /\ seen' = [seen EXCEPT !.open = fs.results.kind]
    /\ log' = log \cup {"open_results"}
    /\ fsAt' = fs
    /\ IF CanOpen(fs.results)
       THEN resp' = wfile_write(resp, ReadAll(fs.results)) /\ hpc' = "finished"
       ELSE resp' = resp /\ hpc' = "raised"
    /\ UNCHANGED <<fs, srvVars, sample, req, self_path>>

\* self.wfile.write(json.dumps(mock_data, indent=2).encode())
do_GET_summary_mock ==
    /\ main = "serving"
    /\ hpc = "mock"
    /\ resp' = wfile_write(resp, MockBody)
    /\ hpc' = "finished"
    /\ UNCHANGED <<fs, srvVars, sample, req, self_path, seen, log, fsAt>>

\* do_GET, fall through: super().do_GET() on the unchanged path.
do_GET_default ==
    /\ main = "serving"
    /\ hpc = "dispatch"
    /\ HasMethod(req.command)
    /\ req.command = "GET"
    /\ ~IsRoot(self_path)
    /\ ~IsSummary(self_path)
    /\ resp' = super_do_GET(resp, self_path, fs)
    /\ log' = log \cup {"static"}
    /\ fsAt' = fs
    /\ hpc' = "finished"
    /\ UNCHANGED <<fs, srvVars, sample, req, self_path, seen>>

\* The connection is closed (HTTP/1.0: one request per connection) and the
\* serve loop goes back to select().
Finish ==
    /\ main = "serving"
    /\ hpc \in {"finished", "raised"}
    /\ hpc' = "idle"
    /\ req' = NoRequest
    /\ resp' = NoResponse
    /\ seen' = NoSeen
    /\ log' = {}
    /\ fsAt' = NoFs
    /\ UNCHANGED <<fs, srvVars, sample, self_path>>

Handler ==
    \/ \E c \in Commands, p \in Paths : Accept(c, p)
    \/ Unsupported
    \/ do_HEAD
    \/ do_GET_root
    \/ do_GET_summary
    \/ do_GET_summary_file
    \/ do_GET_summary_mock
    \/ do_GET_default
    \/ Finish

-----------------------------------------------------------------------------
(* __main__ and socketserver.BaseServer *)

StartLines == <<"Dashboard server running at http://localhost:8080", "Press Ctrl+C to stop">>
ShutdownLine == "Shutting down..."

\* os.chdir and TCPServer(("", PORT), ...): the bind succeeds or raises OSError.
Bind ==
    /\ main = "start"
    /\ main' \in {"bound", "exited"}
    /\ UNCHANGED <<fs, is_shut_down, shutdown_request, out, intr, hdlVars, sample>>

\* the two print calls before the try
PrintStart ==
    /\ main = "bound"
    /\ out' = out \o StartLines
    /\ main' = "enter"
    /\ UNCHANGED <<fs, is_shut_down, shutdown_request, intr, hdlVars, sample>>

\* serve_forever: self.__is_shut_down.clear(), then the try block
serve_forever ==
    /\ main = "enter"
    /\ is_shut_down' = FALSE
    /\ main' = "serving"
    /\ UNCHANGED <<fs, shutdown_request, out, intr, hdlVars, sample>>

\* The event is left unset when the loop is left.
ServeForeverFinally_unset == [shutdown_request |-> FALSE, is_shut_down |-> FALSE]

\* finally of serve_forever: __shutdown_request = False; __is_shut_down.set()
ServeForeverFinally == [shutdown_request |-> FALSE, is_shut_down |-> TRUE]

\* Ctrl+C while the serve loop runs (in select() or inside a handler):
\* KeyboardInterrupt leaves serve_forever through its finally clause; a
\* request in progress is abandoned and its connection closed.
KeyboardInterrupt ==
    /\ main = "serving"
    /\ shutdown_request' = ServeForeverFinally.shutdown_request
    /\ is_shut_down' = ServeForeverFinally.is_shut_down
    /\ intr' = "serving"
    /\ main' = "except"
    /\ hpc' = "idle"
    /\ req' = NoRequest
    /\ resp' = NoResponse
    /\ seen' = NoSeen
    /\ log' = {}
    /\ fsAt' = NoFs
    /\ UNCHANGED <<fs, out, self_path, sample>>

\* Ctrl+C after serve_forever was called and before its try block was
\* entered: the finally clause does not run.
KeyboardInterruptEarly ==
    /\ main = "enter"
    /\ intr' = "enter"
    /\ main' = "except"
    /\ UNCHANGED <<fs, is_shut_down, shutdown_request, out, hdlVars, sample>>

\* except KeyboardInterrupt: print("\nShutting down...")
PrintShutdown ==
    /\ main = "except"
    /\ out' = Append(out, ShutdownLine)
    /\ main' = "shutdown"
    /\ UNCHANGED <<fs, is_shut_down, shutdown_request, intr, hdlVars, sample>>

\* httpd.shutdown(): self.__shutdown_request = True
ShutdownCall ==
    /\ main = "shutdown"
    /\ shutdown_request' = TRUE
    /\ main' = "wait"
    /\ UNCHANGED <<fs, is_shut_down, out, intr, hdlVars, sample>>

\* httpd.shutdown(): self.__is_shut_down.wait() returns once the event is set
ShutdownReturn ==
    /\ main = "wait"
    /\ is_shut_down
    /\ main' = "close"
    /\ UNCHANGED <<fs, is_shut_down, shutdown_request, out, intr, hdlVars, sample>>

\* leaving the with block: server_close(), and the script ends
ServerClose ==
    /\ main = "close"
    /\ main' = "exited"
    /\ UNCHANGED <<fs, is_shut_down, shutdown_request, out, intr, hdlVars, sample>>

MainStep ==
    \/ Bind
    \/ PrintStart
    \/ serve_forever
    \/ PrintShutdown
    \/ ShutdownCall
    \/ ShutdownReturn
    \/ ServerClose

-----------------------------------------------------------------------------
(* The environment: other processes change the files *)

FsChange ==
    /\ fs' \in FsStates
    /\ fs' # fs
    /\ \/ fs'.results # fs.results /\ fs'.index = fs.index /\ fs'.local = fs.local
       \/ fs'.results = fs.results /\ fs'.index # fs.index /\ fs'.local = fs.local
       \/ fs'.results = fs.results /\ fs'.index = fs.index /\ fs'.local # fs.local
    /\ UNCHANGED <<srvVars, hdlVars, sample>>

\* The files change only between requests.
FsChangeIdle == hpc = "idle" /\ FsChange

-----------------------------------------------------------------------------
(* Specifications *)

Init ==
    /\ fs \in FsStates
    /\ main = "start"
    /\ is_shut_down = FALSE
    /\ shutdown_request = FALSE
    /\ out = << >>
    /\ intr = "none"
    /\ hpc = "idle"
    /\ req = NoRequest
    /\ self_path = << >>
    /\ resp = NoResponse
    /\ seen = NoSeen
    /\ log = {}
    /\ fsAt = NoFs
    /\ sample = NoSample

Next ==
    \/ MainStep
    \/ KeyboardInterrupt
    \/ KeyboardInterruptEarly
    \/ Handler
    \/ FsChange

\* The program with files that may change at any moment.
Spec == Init /\ [][Next]_vars

\* The serve loop after start-up, with files that change only between
\* requests; one completed GET is kept, at any moment, for later comparison.
Remember ==
    /\ hpc \in {"finished", "raised"}
    /\ req.command = "GET"
    /\ sample = NoSample
    /\ sample' = [path |-> req.path, fs |-> fs, resp |-> resp]
    /\ UNCHANGED <<fs, srvVars, hdlVars>>

InitServing ==
    /\ fs \in FsStates
    /\ main = "serving"
    /\ is_shut_down = FALSE
    /\ shutdown_request = FALSE
    /\ out = StartLines
    /\ intr = "none"
    /\ hpc = "idle"
    /\ req = NoRequest
    /\ self_path = << >>
    /\ resp = NoResponse
    /\ seen = NoSeen
    /\ log = {}
    /\ fsAt = NoFs
    /\ sample = NoSample

NextPair ==
    \/ Handler
    \/ Remember
    \/ FsChangeIdle

SpecPair == InitServing /\ [][NextPair]_vars

\* The main thread keeps running: each of its steps is taken when it can be.
LiveSpec == Init /\ [][Next]_vars /\ WF_vars(MainStep)

-----------------------------------------------------------------------------
(* Properties *)

\* json.loads of a body, as far as the top level: the keys of the outermost
\* object are the strings at nesting depth 1 that a ":" follows, and the
\* value of a key starts at the lexeme after the ":".
Depth(toks, i) ==
    Cardinality({ j \in 1..(i - 1) : toks[j] = Punct("{") })
    - Cardinality({ j \in 1..(i - 1) : toks[j] = Punct("}") })

TopKeyAt(toks) ==
    { i \in 1..(Len(toks) - 2) :
        toks[i].t = "str" /\ toks[i + 1] = Punct(":") /\ Depth(toks, i) = 1 }

TopKeys(toks) == { toks[i].s : i \in TopKeyAt(toks) }

TopValue(toks, key) ==
    toks[(CHOOSE i \in TopKeyAt(toks) : toks[i].s = key) + 2]

RequiredKeys == {"timestamp", "status", "total_tests", "passed", "failed",
                 "ignored", "pass_rate", "test_suites", "environment"}

JsonHeaders(r) ==
    /\ r.status = 200
    /\ r.ended
    /\ HasHeader(r, "Content-type", "application/json")
    /\ HasHeader(r, "Access-Control-Allow-Origin", "*")

SummaryGet == req.command = "GET" /\ req.path = P_SUMMARY

\* What a request path names under the script's directory (a case-sensitive
\* POSIX filesystem), written out path by path.
Named(path, f) ==
    IF path \in {P_ROOT, P_ROOT_QUERY} THEN Dir
    ELSE IF path = P_INDEX THEN f.index
    ELSE IF path \in {P_SUMMARY, P_SUMMARY_QUERY, P_SUMMARY_FRAG, P_SUMMARY_DOTS}
         THEN f.local
    ELSE IF path = P_RESULTS_DIR
         THEN (IF f.local.kind = "absent" THEN Absent ELSE Dir)
    ELSE Absent

\* C1: a GET for /test-results/summary.json that finds the results file, a
\* regular file, at exists() and at open() is answered 200 with
\* Content-type: application/json and Access-Control-Allow-Origin: *, its
\* body is exactly what the file held when it was read, and static file
\* serving took no part.
C1_FileServedVerbatim ==
    (hpc = "finished" /\ SummaryGet /\ seen.check = "file" /\ seen.open = "file")
        => /\ JsonHeaders(resp)
           /\ resp.body = fsAt.results.data
           /\ "static" \notin log

C1_Witness ==
    /\ hpc = "finished" /\ SummaryGet
    /\ seen.check = "file" /\ seen.open = "file"
    /\ Len(resp.body) > 1

\* C2: a GET for /test-results/summary.json that finds no results file is
\* answered 200 with the same two headers and the constant mock record: the
\* body parses to an object with the nine keys, total_tests = passed +
\* failed + ignored = 437, and it is the same body on every such request.
C2_MockServed ==
    (hpc = "finished" /\ SummaryGet /\ seen.check = "absent")
        => /\ JsonHeaders(resp)
           /\ resp.body = MockBody
           /\ RequiredKeys \subseteq TopKeys(resp.body)
           /\ TopValue(resp.body, "total_tests") = JNum(437)
           /\ TopValue(resp.body, "total_tests").n =
                TopValue(resp.body, "passed").n + TopValue(resp.body, "failed").n
                + TopValue(resp.body, "ignored").n

C2_Witness ==
    /\ hpc = "finished" /\ SummaryGet
    /\ seen.check = "absent"
    /\ resp.body # << >>

\* C3: with the same files, a GET for / and a GET for /index.html get the
\* same response (status, headers and body), whichever comes first.
C3_RootAsIndex ==
    ( /\ hpc = "finished" /\ req.command = "GET"
      /\ sample # NoSample /\ sample.fs = fs
      /\ \/ req.path = P_ROOT /\ sample.path = P_INDEX
         \/ req.path = P_INDEX /\ sample.path = P_ROOT )
        => resp = sample.resp

C3_Witness ==
    /\ hpc = "finished" /\ req.command = "GET" /\ req.path = P_ROOT
    /\ sample.path = P_INDEX /\ sample.fs = fs
    /\ resp.status = 200 /\ resp.body = IndexContent

\* C4: a KeyboardInterrupt raised out of the running serve loop leads to the
\* shutdown line being printed and to the process ending: shutdown(), called
\* from the thread that ran serve_forever, returns.
C4_InterruptTerminates ==
    (main = "except" /\ intr = "serving")
        ~> (main = "exited" /\ out = Append(StartLines, ShutdownLine))

C4_Witness ==
    /\ main = "exited" /\ intr = "serving"
    /\ shutdown_request

\* C5 as written: the handler never writes to the filesystem, and it touches
\* the filesystem only in a GET for /test-results/summary.json that found the
\* results file.
C5_ReadsOnlyResults ==
    [][ /\ (hpc' # hpc \/ resp' # resp \/ log' # log) => fs' = fs
        /\ log' # {} => ( /\ req'.command = "GET" /\ req'.path = P_SUMMARY
                          /\ seen'.check \in {"file", "dir"} ) ]_vars

\* C5 amended: the handler never writes to the filesystem; it opens the
\* results file only in a GET for /test-results/summary.json whose exists()
\* found it, makes the exists() check only in a GET for that path, and reads
\* the script's directory, through static file serving, in every other GET
\* and in every HEAD, and in no other request.
C5_ReadsAmended ==
    [][ /\ (hpc' # hpc \/ resp' # resp \/ log' # log) => fs' = fs
        /\ "open_results" \in log' =>
              ( /\ req'.command = "GET" /\ req'.path = P_SUMMARY
                /\ seen'.check \in {"file", "dir"} )
        /\ "exists_results" \in log' =>
              (req'.command = "GET" /\ req'.path = P_SUMMARY)
        /\ "static" \in log' =>
              ( /\ req'.command \in {"GET", "HEAD"}
                /\ ~(req'.command = "GET" /\ req'.path = P_SUMMARY) )
        /\ (hpc' = "finished" /\ req'.command \in {"GET", "HEAD"}
             /\ ~(req'.command = "GET" /\ req'.path = P_SUMMARY))
              => log' = {"static"} ]_vars

C5_Witness ==
    /\ hpc = "finished" /\ req.command = "GET" /\ req.path = P_INDEX
    /\ log = {"static"} /\ resp.body = IndexContent

C7_Stateless ==
    ( /\ hpc \in {"finished", "raised"} /\ req.command = "GET"
      /\ sample # NoSample /\ sample.path = req.path /\ sample.fs = fs )
        => resp = sample.resp

C7_Witness ==
    /\ hpc = "finished" /\ req.command = "GET" /\ req.path = P_INDEX
    /\ sample.path = P_INDEX /\ sample.fs = fs
    /\ resp.status = 200

\* C8: a GET for a path other than / and /test-results/summary.json that
\* names no file or directory under the script's directory is answered 404
\* with the error page, not with the mock record or index.html.
C8_NotFound ==
    ( /\ hpc = "finished" /\ req.command = "GET"
      /\ req.path \notin {P_ROOT, P_SUMMARY}
      /\ Named(req.path, fsAt).kind = "absent" )
        => /\ resp.status = 404
           /\ resp.body = ErrorPage(404)
           /\ resp.body # MockBody
           /\ resp.body # IndexContent

C8_Witness ==
    /\ hpc = "finished" /\ req.command = "GET" /\ req.path = P_MISSING
    /\ fsAt.index.kind = "file"
    /\ resp.status = 404

\* C9: a GET takes one of three branches by equality of the raw path: / is
\* rewritten to /index.html and delegated; /test-results/summary.json is
\* answered by the summary logic and never delegated; any other path,
\* variants of the two included, is delegated unchanged to static file
\* serving, which does not look at the results file and does not send the
\* mock record.
C9_ThreeBranches ==
    (req.command = "GET" /\ hpc \in {"open", "mock", "raised", "finished"})
        => /\ req.path = P_ROOT =>
                (self_path = P_INDEX /\ log = {"static"} /\ hpc = "finished")
           /\ req.path = P_SUMMARY =>
                (self_path = P_SUMMARY /\ "static" \notin log /\ "exists_results" \in log)
           /\ req.path \notin {P_ROOT, P_SUMMARY} =>
                /\ self_path = req.path
                /\ log = {"static"}
                /\ hpc = "finished"
                /\ resp.body # MockBody
                /\ ~HasHeader(resp, "Access-Control-Allow-Origin", "*")
                /\ Named(req.path, fsAt).kind = "file" => resp.body = Named(req.path, fsAt).data
                /\ Named(req.path, fsAt).kind = "absent" => resp.status = 404

C9_Witness ==
    /\ hpc = "finished" /\ req.command = "GET" /\ req.path = P_SUMMARY_QUERY
    /\ fs.results.kind = "file" /\ fsAt.local.kind = "file"
    /\ resp.body = LocalContent

\* C10: once the 200 status line and the headers of a GET for
\* /test-results/summary.json are sent, the handler ends with a complete
\* body: all of the results file, or all of the mock record.
C10_BodyFollowsHeaders ==
    (SummaryGet /\ hpc \in {"finished", "raised"} /\ resp.status = 200 /\ resp.ended)
        => \/ resp.body = MockBody
           \/ seen.open = "file" /\ resp.body = fsAt.results.data

====
